---- MODULE Spec2Model ----
(***************************************************************************)
(* Model of the Lambda entry point of cloud-project-backend                *)
(* (src/server.js): the dispatcher exports.handler, the four operation     *)
(* handlers, the Cognito token check and the two DynamoDB tables.          *)
(*                                                                         *)
(* JavaScript values are tagged records [t |-> <typeof>, v |-> <value>].   *)
(* JavaScript strings are tuples of one-character strings; the messages    *)
(* of errors and the fixed texts of error bodies are TLA+ strings.         *)
(***************************************************************************)
EXTENDS Integers, Sequences, FiniteSets

VARIABLES
    store,      \* the DynamoDB tables: TableName -> set of items
    nextUuid,   \* number of uuidv4() values handed out so far
    event,      \* the event of the last invocation of exports.handler
    response,   \* what that invocation gave back to its caller
    escaped,    \* TRUE when that invocation threw instead of returning
    calls,      \* the collaborator calls that invocation made
    created     \* TableName -> the items carried in 201 bodies so far

vars == <<store, nextUuid, event, response, escaped, calls, created>>

\* ------------------------------------------------------------- bounds

\* uuidv4() is called at most MaxUuids times: creation stops after that.
MaxUuids == 1
\* The longest items array a request carries.
MaxItems == 2

\* ------------------------------------------------- JavaScript values

Undefined == [t |-> "undefined"]
Null == [t |-> "null"]
NaN == [t |-> "NaN"]
JSNum(n) == [t |-> "number", v |-> n]
JSStr(s) == [t |-> "string", v |-> s]
JSArr(a) == [t |-> "array", v |-> a]
JSObj(o) == [t |-> "object", v |-> o]

\* !x is FALSE: undefined, null, NaN, 0 and the empty string are falsy.
Truthy(x) ==
    CASE x.t = "undefined" -> FALSE
      [] x.t = "null" -> FALSE
      [] x.t = "NaN" -> FALSE
      [] x.t = "number" -> x.v # 0
      [] x.t = "string" -> x.v # <<>>
      [] OTHER -> TRUE

\* a || b
OrElse(a, b) == IF Truthy(a) THEN a ELSE b

Digits == <<"0", "1", "2", "3", "4", "5", "6", "7", "8", "9">>
IsDigit(c) == \E d \in 1..10 : Digits[d] = c
DigitValue(c) == (CHOOSE d \in 1..10 : Digits[d] = c) - 1

\* The number a string of decimal digits denotes.
RECURSIVE Decimal(_)
Decimal(s) ==
    IF s = <<>> THEN 0
    ELSE 10 * Decimal(SubSeq(s, 1, Len(s) - 1)) + DigitValue(s[Len(s)])

\* Number(x) for the values a JSON body can hold.
NumberOf(x) ==
    CASE x.t = "number" -> x
      [] x.t = "null" -> JSNum(0)
      [] x.t = "string" ->
           IF \A i \in 1..Len(x.v) : IsDigit(x.v[i]) THEN JSNum(Decimal(x.v)) ELSE NaN
      [] OTHER -> NaN

\* String(x): a string is itself, a small natural number its decimal digit.
StringOf(x) ==
    CASE x.t = "string" -> x
      [] x.t = "number" /\ x.v \in 0..9 -> JSStr(<<Digits[x.v + 1]>>)
      [] OTHER -> JSStr(<<"?">>)

\* a * b on numbers (undefined or NaN operands give NaN).
Times(a, b) ==
    LET na == NumberOf(a)
        nb == NumberOf(b)
    IN  IF na.t = "number" /\ nb.t = "number" THEN JSNum(na.v * nb.v) ELSE NaN

\* x <= 0: FALSE whenever x does not convert to a number.
LeqZero(x) ==
    LET n == NumberOf(x)
    IN  n.t = "number" /\ n.v <= 0

\* ------------------------------------------------------------ strings

UpperCase == <<"A","B","C","D","E","F","G","H","I","J","K","L","M",
               "N","O","P","Q","R","S","T","U","V","W","X","Y","Z">>
LowerCase == <<"a","b","c","d","e","f","g","h","i","j","k","l","m",
               "n","o","p","q","r","s","t","u","v","w","x","y","z">>

ToLowerChar(c) ==
    IF \E i \in 1..26 : UpperCase[i] = c
    THEN LowerCase[CHOOSE i \in 1..26 : UpperCase[i] = c]
    ELSE c

ToLower(s) == [i \in 1..Len(s) |-> ToLowerChar(s[i])]

\* \s of a regular expression, over the characters the model uses.
IsSpace(c) == c \in {" ", "\t"}

\* s.startsWith(p)
StartsWith(s, p) == Len(s) >= Len(p) /\ SubSeq(s, 1, Len(p)) = p

BearerSp == <<"B","e","a","r","e","r"," ">>
bearer == <<"b","e","a","r","e","r">>

\* The number of whitespace characters of s from position i on.
RECURSIVE SpaceRun(_, _)
SpaceRun(s, i) ==
    IF i <= Len(s) /\ IsSpace(s[i]) THEN 1 + SpaceRun(s, i + 1) ELSE 0

\* s.replace(/^Bearer\s+/i, ''): the prefix goes when s starts with "bearer" in
\* any letter case followed by at least one whitespace character.
StripBearer(s) ==
    IF Len(s) >= 7 /\ ToLower(SubSeq(s, 1, 6)) = bearer /\ IsSpace(s[7])
    THEN SubSeq(s, 7 + SpaceRun(s, 7), Len(s))
    ELSE s

\* obj.key: undefined when obj has no such property.
Prop(obj, key) ==
    IF obj.t = "object" /\ key \in DOMAIN obj.v THEN obj.v[key] ELSE Undefined

\* obj?.key
OptProp(obj, key) ==
    IF obj.t \in {"null", "undefined"} THEN Undefined ELSE Prop(obj, key)

\* JSON.stringify(x): the JSON text, written as the value it encodes.
JSONStringify(x) == [json |-> x]

\* ------------------------------------------------- results and outcomes

PRODUCT_TABLE_NAME == "Product"
ORDER_TABLE_NAME == "Order"
TableNames == {PRODUCT_TABLE_NAME, ORDER_TABLE_NAME}

\* CORS headers configuration
headers ==
    [AccessControlAllowOrigin |-> "*",
     AccessControlAllowCredentials |-> TRUE,
     ContentType |-> "application/json"]

preflightHeaders ==
    [AccessControlAllowOrigin |-> "*",
     AccessControlAllowCredentials |-> TRUE,
     ContentType |-> "application/json",
     AccessControlAllowMethods |-> "GET,POST,PUT,DELETE,OPTIONS",
     AccessControlAllowHeaders |->
         "Content-Type,X-Amz-Date,Authorization,X-Api-Key,X-Amz-Security-Token"]

\* {}: TLA+ has no record without fields, so a marker field stands for none.
EmptyObject == JSObj([empty |-> TRUE])

Result(status, hdrs, value) ==
    [statusCode |-> status, headers |-> hdrs, body |-> JSONStringify(value)]

NoResult == [statusCode |-> 0, headers |-> [none |-> TRUE], body |-> JSONStringify(Undefined)]

\* The collaborator calls of one invocation: the tokens given to verifyToken and
\* to Cognito's getUser, the user getUser gave back, and the puts and the scans
\* with how DynamoDB answered each (ok).
NoCalls == [verify |-> <<>>, getUser |-> <<>>, user |-> Undefined,
            put |-> <<>>, scan |-> <<>>]

PutCall(put, ok) == [TableName |-> put.TableName, Item |-> put.Item, ok |-> ok]

\* How a function ends: it returns value, or throws an Error with message.
\* written: the puts DynamoDB carried out; uuids: the uuidv4() calls made.
Return(value, c, written, uuids) ==
    [threw |-> FALSE, value |-> value, message |-> "", calls |-> c,
     written |-> written, uuids |-> uuids]

Throw(message, c, written, uuids) ==
    [threw |-> TRUE, value |-> NoResult, message |-> message, calls |-> c,
     written |-> written, uuids |-> uuids]

\* ------------------------------------------------------- collaborators

T1 == <<"t", "1">>
T2 == <<"t", "2">>

\* The access tokens Cognito knows, and the user each belongs to.
CognitoUser(token) ==
    IF token = T1 THEN JSObj([Username |-> JSStr(<<"a", "l", "i", "c", "e">>)])
    ELSE IF token = T2 THEN JSObj([Username |-> JSStr(<<"b", "o", "b">>)])
    ELSE Undefined

\* cognitoIdentityServiceProvider.getUser(params).promise(): the user of a known
\* token while the service answers, a rejection otherwise.
getUser(token, env) ==
    IF ~env.cognitoUp
    THEN [threw |-> TRUE, value |-> Undefined, message |-> "NetworkingError: connect ETIMEDOUT"]
    ELSE IF CognitoUser(token) = Undefined
    THEN [threw |-> TRUE, value |-> Undefined,
          message |-> "NotAuthorizedException: Invalid Access Token"]
    ELSE [threw |-> FALSE, value |-> CognitoUser(token), message |-> ""]

\* The n-th value of uuidv4().
uuidv4(n) == [t |-> "uuid", v |-> n]

\* new Date().toISOString() at the n-th creation (logical time).
toISOString(n) == [t |-> "date", v |-> n]

\* JSON.parse(text) of event.body: null parses to null, a well-formed text to
\* its value, anything else is a SyntaxError.
JSONParse(text) ==
    CASE text.t = "null" -> [threw |-> FALSE, value |-> Null, message |-> ""]
      [] text.t = "json" -> [threw |-> FALSE, value |-> text.v, message |-> ""]
      [] OTHER -> [threw |-> TRUE, value |-> Undefined,
                   message |-> "Unexpected token in JSON"]

\* dynamoDb.put({TableName, Item}): the item replaces the one with its key.
Put(db, TableName, Item) ==
    [db EXCEPT ![TableName] = {x \in @ : x.id # Item.id} \cup {Item}]

\* The orders in which dynamoDb.scan({TableName}) may list a table's items.
Scans(db, TableName) ==
    {s \in [1..Cardinality(db[TableName]) -> db[TableName]] :
        \A i, j \in DOMAIN s : i # j => s[i] # s[j]}

\* ------------------------------------------------------- verifyToken

\* The catch block of verifyToken: every failure is thrown again as
\* 'Invalid token: ' + error.
invalidToken(token, user) ==
    IF user.threw
    THEN [threw |-> TRUE, value |-> Undefined, getUser |-> <<token>>,
          message |-> "Invalid token: " \o user.message]
    ELSE [threw |-> FALSE, value |-> user.value, getUser |-> <<token>>, message |-> ""]

\* Helper function to verify Cognito token
verifyToken(token, env) ==
    IF ~Truthy(JSStr(token))
    THEN [threw |-> TRUE, value |-> Undefined, getUser |-> <<>>,
          message |-> "Invalid token: Error: No token provided"]
    ELSE invalidToken(token, getUser(token, env))

\* ------------------------------------------------------ createProduct

\* createProduct once the body is parsed.
createProductOf(parsed, env, n) ==
    LET body == parsed.value
        name == Prop(body, "name")
        price == Prop(body, "price")
        description == Prop(body, "description")
        imageUrl == Prop(body, "imageUrl")
        productItem ==
            [id |-> uuidv4(n + 1),
             name |-> StringOf(name),
             price |-> NumberOf(price),
             description |-> StringOf(description),
             imageUrl |-> IF Truthy(imageUrl) THEN StringOf(imageUrl) ELSE Null,
             createdAt |-> toISOString(n + 1)]
        put == [TableName |-> PRODUCT_TABLE_NAME, Item |-> productItem]
    IN  IF parsed.threw THEN Throw(parsed.message, NoCalls, <<>>, 0)
        ELSE IF body.t \in {"null", "undefined"}
        THEN Throw("Cannot destructure property 'name' of 'body' as it is null.",
                   NoCalls, <<>>, 0)
        ELSE IF ~Truthy(name) \/ ~Truthy(price) \/ ~Truthy(description)
        THEN Return(Result(400, headers,
                           JSObj([error |-> "Missing name, price, or description"])),
                    NoCalls, <<>>, 0)
        ELSE IF ~env.dynamoUp
        THEN Throw("ServiceUnavailable: DynamoDB put failed",
                   [NoCalls EXCEPT !.put = <<PutCall(put, FALSE)>>], <<>>, 1)
        ELSE Return(Result(201, headers, JSObj(productItem)),
                    [NoCalls EXCEPT !.put = <<PutCall(put, TRUE)>>], <<put>>, 1)

\* Create Product
createProduct(ev, env, n) == createProductOf(JSONParse(ev.body), env, n)

\* ---------------------------------------- getAllProducts, getAllOrders

\* dynamoDb.scan({TableName}).promise() and the 200 that carries its Items.
scanAll(TableName, env) ==
    IF ~env.dynamoUp
    THEN Throw("ServiceUnavailable: DynamoDB scan failed",
               [NoCalls EXCEPT !.scan = <<[TableName |-> TableName, ok |-> FALSE]>>], <<>>, 0)
    ELSE Return(Result(200, headers, JSArr(env.Items)),
                [NoCalls EXCEPT !.scan = <<[TableName |-> TableName, ok |-> TRUE]>>], <<>>, 0)

\* Get All Products
getAllProducts(env) == scanAll(PRODUCT_TABLE_NAME, env)

\* New function: Get All Orders
getAllOrders(env) == scanAll(ORDER_TABLE_NAME, env)

\* -------------------------------------------------------- createOrder

\* event.headers?.Authorization || event.headers?.authorization
authHeaderOf(ev) ==
    OrElse(OptProp(ev.headers, "Authorization"), OptProp(ev.headers, "authorization"))

\* tokenRequired without the check of the prefix.
tokenRequired_AnyScheme(authHeader) == ~Truthy(authHeader)

\* !authHeader || !authHeader.startsWith('Bearer ')
tokenRequired(authHeader) ==
    ~Truthy(authHeader) \/ ~StartsWith(authHeader.v, BearerSp)

\* authHeader.replace(/^Bearer\s+/i, '')
tokenOf(authHeader) == StripBearer(authHeader.v)

\* !items || !Array.isArray(items) || items.length === 0
itemsRequired(items) ==
    ~Truthy(items) \/ items.t # "array" \/ Len(items.v) = 0

\* itemInvalid without the check of the quantity's sign.
itemInvalid_AnySign(item) ==
    \/ ~Truthy(Prop(item, "id"))
    \/ ~Truthy(Prop(item, "quantity"))

\* !item.id || !item.quantity || item.quantity <= 0
itemInvalid(item) ==
    \/ ~Truthy(Prop(item, "id"))
    \/ ~Truthy(Prop(item, "quantity"))
    \/ LeqZero(Prop(item, "quantity"))

\* for (const item of items): the first element, from the i-th on, that ends
\* the loop: reading a property of null or undefined throws, an invalid item
\* returns; "ok" when the loop runs to its end.
RECURSIVE checkItems(_, _)
checkItems(items, i) ==
    IF i > Len(items) THEN "ok"
    ELSE IF items[i].t \in {"null", "undefined"} THEN "throw"
    ELSE IF itemInvalid(items[i]) THEN "invalid"
    ELSE checkItems(items, i + 1)

\* item.price || 0
priceOf(item) == OrElse(Prop(item, "price"), JSNum(0))

\* orderLine with the unit price as the total.
orderLine_UnitTotal(item) ==
    JSObj([id |-> StringOf(Prop(item, "id")),
           quantity |-> NumberOf(Prop(item, "quantity")),
           price |-> NumberOf(priceOf(item)),
           totalPrice |-> NumberOf(priceOf(item))])

\* One element of items.map(...)
orderLine(item) ==
    JSObj([id |-> StringOf(Prop(item, "id")),
           quantity |-> NumberOf(Prop(item, "quantity")),
           price |-> NumberOf(priceOf(item)),
           totalPrice |-> NumberOf(Times(priceOf(item), Prop(item, "quantity")))])

pending == <<"p", "e", "n", "d", "i", "n", "g">>

\* const orderItem = {...}
orderItemOf(username, items, n) ==
    [id |-> uuidv4(n + 1),
     userId |-> username,
     items |-> JSArr([i \in 1..Len(items) |-> orderLine(items[i])]),
     createdAt |-> toISOString(n + 1),
     status |-> JSStr(pending)]

\* putOrder that answers 201 without the put having been carried out.
putOrder_NotWritten(put, c, env) ==
    Return(Result(201, headers, JSObj(put.Item)),
           [c EXCEPT !.put = <<PutCall(put, TRUE)>>], <<>>, 1)

\* await dynamoDb.put({TableName: ORDER_TABLE_NAME, Item: orderItem}) and the 201.
putOrder(put, c, env) ==
    IF ~env.dynamoUp
    THEN Throw("ServiceUnavailable: DynamoDB put failed",
               [c EXCEPT !.put = <<PutCall(put, FALSE)>>], <<>>, 1)
    ELSE Return(Result(201, headers, JSObj(put.Item)),
                [c EXCEPT !.put = <<PutCall(put, TRUE)>>], <<put>>, 1)

\* The try block from the items of the body on: validation, the order, the put.
orderOfItems(items, check, username, c, env, n) ==
    IF itemsRequired(items)
    THEN Return(Result(400, headers, JSObj([error |-> "Items array is required"])),
                c, <<>>, 0)
    ELSE IF check = "throw"
    THEN Throw("Cannot read properties of null (reading 'id')", c, <<>>, 0)
    ELSE IF check = "invalid"
    THEN Return(Result(400, headers,
                  JSObj([error |-> "Each item must have productId and positive quantity"])),
                c, <<>>, 0)
    ELSE putOrder([TableName |-> ORDER_TABLE_NAME,
                   Item |-> orderItemOf(username, items.v, n)], c, env)

\* The try block from JSON.parse(event.body) on.
orderOfBody(parsed, username, c, env, n) ==
    IF parsed.threw THEN Throw(parsed.message, c, <<>>, 0)
    ELSE IF parsed.value.t \in {"null", "undefined"}
    THEN Throw("Cannot destructure property 'items' of 'body' as it is null.", c, <<>>, 0)
    ELSE orderOfItems(Prop(parsed.value, "items"),
                      IF itemsRequired(Prop(parsed.value, "items")) THEN "ok"
                      ELSE checkItems(Prop(parsed.value, "items").v, 1),
                      username, c, env, n)

\* orderOfUser that goes on after verifyToken has thrown.
orderOfUser_FailOpen(ev, verified, c, env, n) ==
    orderOfBody(JSONParse(ev.body), Prop(verified.value, "Username"), c, env, n)

\* The try block once verifyToken has settled.
orderOfUser(ev, verified, c, env, n) ==
    IF verified.threw THEN Throw(verified.message, c, <<>>, 0)
    ELSE orderOfBody(JSONParse(ev.body), Prop(verified.value, "Username"), c, env, n)

\* The calls made once verifyToken(token) has settled.
verifyCalls(token, verified) ==
    [NoCalls EXCEPT !.verify = <<token>>,
                    !.getUser = verified.getUser,
                    !.user = verified.value]

\* The try block of createOrder.
tryVerified(ev, token, verified, env, n) ==
    orderOfUser(ev, verified, verifyCalls(token, verified), env, n)

tryCreateOrder(ev, token, env, n) ==
    tryVerified(ev, token, verifyToken(token, env), env, n)

\* createOrder without its catch block.
unauthorized_Rethrow(out) == out

\* The catch block of createOrder.
unauthorized(out) ==
    IF out.threw
    THEN Return(Result(401, headers,
                       JSObj([error |-> "Unauthorized", details |-> out.message])),
                out.calls, out.written, out.uuids)
    ELSE out

\* createOrder once the Authorization header is read.
createOrderOf(ev, authHeader, env, n) ==
    IF tokenRequired(authHeader)
    THEN Return(Result(401, headers, JSObj([error |-> "Authorization token required"])),
                NoCalls, <<>>, 0)
    ELSE unauthorized(tryCreateOrder(ev, tokenOf(authHeader), env, n))

\* Create Order
createOrder(ev, env, n) == createOrderOf(ev, authHeaderOf(ev), env, n)

\* ---------------------------------------------------- exports.handler

\* route that matches event.path in place of event.resource.
route_ByPath(ev, env, n) ==
    IF ev.httpMethod = "POST" /\ ev.path = "/products" THEN createProduct(ev, env, n)
    ELSE IF ev.httpMethod = "GET" /\ ev.path = "/products" THEN getAllProducts(env)
    ELSE IF ev.httpMethod = "POST" /\ ev.path = "/orders" THEN createOrder(ev, env, n)
    ELSE IF ev.httpMethod = "GET" /\ ev.path = "/orders" THEN getAllOrders(env)
    ELSE Return(Result(404, headers, JSObj([error |-> "Not found"])), NoCalls, <<>>, 0)

\* Route based on REST API resource path and HTTP method
route(ev, env, n) ==
    IF ev.httpMethod = "POST" /\ ev.resource = "/products" THEN createProduct(ev, env, n)
    ELSE IF ev.httpMethod = "GET" /\ ev.resource = "/products" THEN getAllProducts(env)
    ELSE IF ev.httpMethod = "POST" /\ ev.resource = "/orders" THEN createOrder(ev, env, n)
    ELSE IF ev.httpMethod = "GET" /\ ev.resource = "/orders" THEN getAllOrders(env)
    ELSE Return(Result(404, headers, JSObj([error |-> "Not found"])), NoCalls, <<>>, 0)

\* exports.handler without its catch block.
internalServerError_Rethrow(out) == out

\* The catch block of exports.handler.
internalServerError(out) ==
    IF out.threw
    THEN Return(Result(500, headers,
                       JSObj([error |-> "Internal server error", details |-> out.message])),
                out.calls, out.written, out.uuids)
    ELSE out

handler(ev, env, n) ==
    IF ev.httpMethod = "OPTIONS"
    THEN Return(Result(200, preflightHeaders, EmptyObject), NoCalls, <<>>, 0)
    ELSE internalServerError(route(ev, env, n))

\* ------------------------------------------------------------- events

Event(method, resource, path, hdrs, body) ==
    [httpMethod |-> method, resource |-> resource, path |-> path,
     headers |-> hdrs, body |-> body]

\* event.body: absent (null), a text that is not JSON, or the JSON text of v.
Malformed == [t |-> "malformed"]
Json(v) == [t |-> "json", v |-> v]

Basic == <<"B", "a", "s", "i", "c", " ">>
BEARER == <<"B", "E", "A", "R", "E", "R", " ">>
AuthValues ==
    {BearerSp \o T1,                  \* Bearer t1
     BearerSp \o T2,                  \* Bearer t2
     BearerSp \o <<"z">>,             \* Bearer z: a token Cognito does not know
     BearerSp,                        \* "Bearer " and nothing after it
     BearerSp \o <<" ">> \o T1,       \* Bearer  t1 (two spaces)
     bearer \o <<" ">> \o T1,         \* bearer t1
     BEARER \o T1,                    \* BEARER t1
     bearer \o T1,                    \* bearert1
     Basic \o T1,                     \* Basic t1
     <<>>}

GoodHeaders == JSObj([Authorization |-> JSStr(BearerSp \o T1)])

HeaderMaps ==
    {Null, JSObj([Host |-> JSStr(<<"h">>)])}
    \cup {JSObj([Authorization |-> JSStr(v)]) : v \in AuthValues}
    \cup {JSObj([authorization |-> JSStr(v)]) : v \in {BearerSp \o T2, Basic \o T1}}
    \cup {JSObj([AUTHORIZATION |-> JSStr(BearerSp \o T1)]),
          JSObj([Authorization |-> JSStr(<<>>), authorization |-> JSStr(BearerSp \o T2)]),
          JSObj([Authorization |-> JSStr(Basic \o T1), authorization |-> JSStr(BearerSp \o T1)])}

P1 == JSStr(<<"p", "1">>)
P2 == JSStr(<<"p", "2">>)

\* The elements an items array is made of: two items that pass validation and
\* one item for each way of failing it.
ValidItems ==
    {JSObj([id |-> P1, quantity |-> JSNum(2), price |-> JSNum(5)]),
     JSObj([id |-> P2, quantity |-> JSNum(1)])}

InvalidItems ==
    {JSObj([quantity |-> JSNum(1), price |-> JSNum(5)]),
     JSObj([id |-> JSStr(<<>>), quantity |-> JSNum(1)]),
     JSObj([id |-> P1, price |-> JSNum(5)]),
     JSObj([id |-> P1, quantity |-> JSNum(0), price |-> JSNum(5)]),
     JSObj([id |-> P2, quantity |-> JSNum(0 - 1)])}

LineItems == ValidItems \cup InvalidItems

\* The sequences of length n over S.
Lists(S, n) == [1..n -> S]

\* The items arrays of the requests: every list of valid items of up to
\* MaxItems elements, and every such list with one element, at any position,
\* replaced by an invalid item.
ItemLists ==
    UNION {Lists(ValidItems, n) : n \in 0..MaxItems}
    \cup UNION {{[l EXCEPT ![i] = x] : l \in Lists(ValidItems, n), i \in 1..n, x \in InvalidItems} :
                n \in 1..MaxItems}

\* Arrays that hold a null among their elements.
NullLists ==
    {<<Null>>} \cup {<<x, Null>> : x \in LineItems} \cup {<<Null, x>> : x \in LineItems}

GoodBody ==
    Json(JSObj([items |-> JSArr(<<JSObj([id |-> P1, quantity |-> JSNum(2), price |-> JSNum(5)])>>)]))

OrderBodies ==
    {Null, Malformed,
     Json(JSNum(5)),
     Json(JSObj([note |-> JSStr(<<"x">>)])),
     Json(JSObj([items |-> P1])),
     Json(JSObj([items |-> Null]))}
    \cup {Json(JSObj([items |-> JSArr(l)])) : l \in ItemLists \cup NullLists}

OrderEvents ==
    {Event("POST", "/orders", "/orders", h, b) : h \in HeaderMaps, b \in {GoodBody, Malformed}}
    \cup {Event("POST", "/orders", "/orders", GoodHeaders, b) : b \in OrderBodies}

NameA == JSStr(<<"A">>)
DescD == JSStr(<<"d">>)
ProductBodies ==
    {Null, Malformed,
     Json(JSNum(5)),
     Json(JSObj([name |-> NameA, price |-> JSNum(10), description |-> DescD])),
     Json(JSObj([name |-> NameA, price |-> JSStr(<<"1", "0">>), description |-> DescD])),
     Json(JSObj([name |-> NameA, price |-> JSNum(10), description |-> DescD,
                 imageUrl |-> JSStr(<<"u">>)])),
     Json(JSObj([name |-> NameA, description |-> DescD])),
     Json(JSObj([name |-> NameA, price |-> JSNum(0), description |-> DescD])),
     Json(JSObj([price |-> JSNum(10), description |-> DescD])),
     Json(JSObj([name |-> NameA, price |-> JSNum(10), description |-> JSStr(<<>>)]))}

ProductEvents ==
    {Event("POST", "/products", "/products", h, b) : h \in {Null, GoodHeaders}, b \in ProductBodies}

Methods == {"GET", "POST", "PUT", "DELETE", "OPTIONS"}
\* event.resource with the event.path API Gateway sends along.
Routes ==
    {<<"/products", "/products">>, <<"/orders", "/orders">>,
     <<"/products/{id}", "/products/7">>, <<"/{proxy+}", "/orders">>,
     <<"/{proxy+}", "/products">>}

\* The events of the other routes and methods, bare or with a credential and
\* a body.
PlainEvents ==
    {Event(m, r[1], r[2], hb[1], hb[2]) :
        m \in Methods, r \in Routes, hb \in {<<Null, Null>>, <<GoodHeaders, GoodBody>>}}

Events == PlainEvents \cup OrderEvents \cup ProductEvents

\* What the collaborators do during one invocation: whether Cognito and
\* DynamoDB answer, and the Items a scan returns.
Env(cognitoUp, dynamoUp, Items) ==
    [cognitoUp |-> cognitoUp, dynamoUp |-> dynamoUp, Items |-> Items]

\* ------------------------------------------------------- the machine

NoEvent == Event("NONE", "", "", Null, Null)

Init ==
    /\ store = [t \in TableNames |-> {}]
    /\ nextUuid = 0
    /\ event = NoEvent
    /\ response = NoResult
    /\ escaped = FALSE
    /\ calls = NoCalls
    /\ created = [t \in TableNames |-> {}]

RECURSIVE Apply(_, _)
Apply(db, written) ==
    IF written = <<>> THEN db
    ELSE Apply(Put(db, Head(written).TableName, Head(written).Item), Tail(written))

TableOf(ev) == IF ev.resource = "/products" THEN PRODUCT_TABLE_NAME ELSE ORDER_TABLE_NAME

\* What an invocation that ended as out leaves behind.
Settle(ev, out) ==
    /\ nextUuid + out.uuids <= MaxUuids
    /\ event' = ev
    /\ response' = out.value
    /\ escaped' = out.threw
    /\ calls' = out.calls
    /\ store' = Apply(store, out.written)
    /\ nextUuid' = nextUuid + out.uuids
    /\ created' = IF ~out.threw /\ out.value.statusCode = 201
                  THEN [created EXCEPT ![TableOf(ev)] = @ \cup {out.value.body.json.v}]
                  ELSE created

\* One invocation of exports.handler, from the event to the response.
Invoke(ev, env) == Settle(ev, handler(ev, env, nextUuid))

IsOptions(ev) == ev.httpMethod = "OPTIONS"
IsPostProducts(ev) == ev.httpMethod = "POST" /\ ev.resource = "/products"
IsGetProducts(ev) == ev.httpMethod = "GET" /\ ev.resource = "/products"
IsPostOrders(ev) == ev.httpMethod = "POST" /\ ev.resource = "/orders"
IsGetOrders(ev) == ev.httpMethod = "GET" /\ ev.resource = "/orders"
IsUnmatched(ev) ==
    ~(IsOptions(ev) \/ IsPostProducts(ev) \/ IsGetProducts(ev)
        \/ IsPostOrders(ev) \/ IsGetOrders(ev))

\* Lambda hands the function one event at a time: an action takes the next
\* event once the response to the last one is out.
Options ==
    /\ event = NoEvent
    /\ \E ev \in {e \in Events : IsOptions(e)} :
           Invoke(ev, Env(TRUE, TRUE, <<>>))

PostProducts(DynamoStates) ==
    /\ event = NoEvent
    /\ \E ev \in {e \in Events : IsPostProducts(e)}, dynamoUp \in DynamoStates :
           Invoke(ev, Env(TRUE, dynamoUp, <<>>))

GetProducts(DynamoStates) ==
    /\ event = NoEvent
    /\ \E ev \in {e \in Events : IsGetProducts(e)}, dynamoUp \in DynamoStates :
           \E Items \in Scans(store, PRODUCT_TABLE_NAME) :
               Invoke(ev, Env(TRUE, dynamoUp, Items))

PostOrders(DynamoStates) ==
    /\ event = NoEvent
    /\ \E ev \in {e \in Events : IsPostOrders(e)}, cognitoUp \in BOOLEAN,
          dynamoUp \in DynamoStates :
           Invoke(ev, Env(cognitoUp, dynamoUp, <<>>))

GetOrders(DynamoStates) ==
    /\ event = NoEvent
    /\ \E ev \in {e \in Events : IsGetOrders(e)}, dynamoUp \in DynamoStates :
           \E Items \in Scans(store, ORDER_TABLE_NAME) :
               Invoke(ev, Env(TRUE, dynamoUp, Items))

Unmatched ==
    /\ event = NoEvent
    /\ \E ev \in {e \in Events : IsUnmatched(e)} :
           Invoke(ev, Env(TRUE, TRUE, <<>>))

\* The caller has its response; the next event may come.
Responded ==
    /\ event # NoEvent
    /\ event' = NoEvent
    /\ response' = NoResult
    /\ escaped' = FALSE
    /\ calls' = NoCalls
    /\ UNCHANGED <<store, nextUuid, created>>

Next ==
    \/ Options
    \/ PostProducts(BOOLEAN)
    \/ GetProducts(BOOLEAN)
    \/ PostOrders(BOOLEAN)
    \/ GetOrders(BOOLEAN)
    \/ Unmatched
    \/ Responded

Spec == Init /\ [][Next]_vars

\* The store of section 1 of the specification: DynamoDB always answers.
NextReliable ==
    \/ Options
    \/ PostProducts({TRUE})
    \/ GetProducts({TRUE})
    \/ PostOrders({TRUE})
    \/ GetOrders({TRUE})
    \/ Unmatched
    \/ Responded

SpecReliable == Init /\ [][NextReliable]_vars

\* ------------------------------------------------------------- claims

ErrorBody(text) == JSONStringify(JSObj([error |-> text]))

\* The response is an error with a details message.
IsError(res, status, text) ==
    /\ res.statusCode = status
    /\ res.body.json.t = "object"
    /\ DOMAIN res.body.json.v = {"error", "details"}
    /\ res.body.json.v.error = text
    /\ res.body.json.v.details # ""

\* The verifier gave this invocation a principal.
Authenticated(c) == c.user # Undefined

\* The verifier was asked and gave none.
Rejected(c) == c.verify # <<>> /\ c.user = Undefined

\* The items array of the body of ev, when the body carries one.
HasItems(ev) ==
    /\ ev.body.t = "json"
    /\ ev.body.v.t = "object"
    /\ "items" \in DOMAIN ev.body.v.v
    /\ ev.body.v.v.items.t = "array"

ItemsOf(ev) == ev.body.v.v.items.v

\* A LineItemInput of section 3: the identifier is a non-empty string and the
\* quantity a number above 0.
ValidInput(item) ==
    /\ item.t = "object"
    /\ "id" \in DOMAIN item.v /\ item.v.id.t = "string" /\ item.v.id.v # <<>>
    /\ "quantity" \in DOMAIN item.v /\ item.v.quantity.t = "number"
    /\ item.v.quantity.v > 0

\* An element with a missing or falsy id, or a missing or non-positive quantity.
FaultyInput(item) ==
    /\ item.t = "object"
    /\ \/ "id" \notin DOMAIN item.v
       \/ item.v.id = JSStr(<<>>)
       \/ "quantity" \notin DOMAIN item.v
       \/ (item.v.quantity.t = "number" /\ item.v.quantity.v <= 0)

\* Every element is an item, valid or faulty, and one at least is faulty.
HasFaultyItem(ev) ==
    /\ HasItems(ev)
    /\ \A i \in DOMAIN ItemsOf(ev) : ValidInput(ItemsOf(ev)[i]) \/ FaultyInput(ItemsOf(ev)[i])
    /\ \E i \in DOMAIN ItemsOf(ev) : FaultyInput(ItemsOf(ev)[i])

AllItemsValid(ev) ==
    /\ HasItems(ev)
    /\ ItemsOf(ev) # <<>>
    /\ \A i \in DOMAIN ItemsOf(ev) : ValidInput(ItemsOf(ev)[i])

\* The Authorization headers of ev under the two keys the code reads.
AuthHeaders(ev) ==
    IF ev.headers.t = "object"
    THEN {ev.headers.v[k] : k \in DOMAIN ev.headers.v \cap {"Authorization", "authorization"}}
    ELSE {}

\* No Authorization header of ev starts with the bearer scheme (none at all
\* included).
NoBearer(ev) == \A h \in AuthHeaders(ev) : ~StartsWith(h.v, BearerSp)

\* C1: an order creation whose headers hold no Authorization header, or none
\* that starts with "Bearer ", is answered 401 {error: "Authorization token
\* required"}; neither verifyToken, nor Cognito, nor the store's put is called.
C1_TokenRequired ==
    (IsPostOrders(event) /\ NoBearer(event)) =>
        /\ ~escaped
        /\ response.statusCode = 401
        /\ response.headers = headers
        /\ response.body = ErrorBody("Authorization token required")
        /\ calls = NoCalls

C1_Witness ==
    /\ IsPostOrders(event)
    /\ event.headers = JSObj([Authorization |-> JSStr(Basic \o T1)])
    /\ event.body = GoodBody
    /\ response.statusCode = 401

\* C2: order creation fails closed. When the verifier rejects the credential
\* (the empty credential, a token Cognito refuses, Cognito unreachable) the
\* answer is 401 "Unauthorized" with the verifier's message as details, whatever
\* the body holds, and nothing is put; a put to the Order table is made only by
\* an order creation whose verifier returned a principal, and for that principal.
C2_FailClosed ==
    /\ (IsPostOrders(event) /\ Rejected(calls)) =>
           /\ IsError(response, 401, "Unauthorized")
           /\ response.body.json.v.details \in
                  {"Invalid token: Error: No token provided",
                   "Invalid token: NotAuthorizedException: Invalid Access Token",
                   "Invalid token: NetworkingError: connect ETIMEDOUT"}
           /\ calls.put = <<>>
    /\ \A i \in DOMAIN calls.put :
           calls.put[i].TableName = ORDER_TABLE_NAME =>
               /\ IsPostOrders(event)
               /\ Authenticated(calls)
               /\ calls.put[i].Item.userId = calls.user.v.Username

C2_Witness ==
    /\ IsPostOrders(event)
    /\ event.headers = JSObj([Authorization |-> JSStr(BearerSp)])
    /\ event.body = Malformed
    /\ calls.verify = <<(<<>>)>>
    /\ response.statusCode = 401

\* C3: item validation is all or nothing. An authenticated order creation whose
\* items array holds a faulty element, at any position among valid ones, is
\* answered 400 {error: "Each item must have productId and positive quantity"},
\* makes no put and leaves the tables as they were.
C3_AllOrNothing ==
    [][(IsPostOrders(event') /\ Authenticated(calls') /\ HasFaultyItem(event')) =>
           /\ ~escaped'
           /\ response'.statusCode = 400
           /\ response'.body =
                  ErrorBody("Each item must have productId and positive quantity")
           /\ calls'.put = <<>>
           /\ store' = store]_vars

C3_Witness ==
    /\ IsPostOrders(event)
    /\ Authenticated(calls)
    /\ HasFaultyItem(event)
    /\ Len(ItemsOf(event)) = 2
    /\ ValidInput(ItemsOf(event)[1])
    /\ ItemsOf(event)[2] = JSObj([id |-> P2, quantity |-> JSNum(0 - 1)])
    /\ response.statusCode = 400

\* The unit price an order line must carry: the submitted one, 0 when it is
\* missing or falsy.
ExpectedPrice(item) ==
    IF "price" \in DOMAIN item.v /\ item.v.price.t = "number" /\ item.v.price.v # 0
    THEN item.v.price.v
    ELSE 0

\* C4: an authenticated order creation with a non-empty array of valid items
\* whose put succeeds is answered 201 with the Order that was put: userId is the
\* username the verifier returned for the credential of this request, status
\* is "pending", and items follows the submitted array element by element, with
\* price the submitted price (0 when missing or falsy) and totalPrice = price x
\* quantity.
C4_OrderCreated ==
    (/\ IsPostOrders(event)
     /\ Authenticated(calls)
     /\ AllItemsValid(event)
     /\ \A i \in DOMAIN calls.put : calls.put[i].ok) =>
        /\ ~escaped
        /\ response.statusCode = 201
        /\ Len(calls.put) = 1
        /\ calls.put[1].TableName = ORDER_TABLE_NAME
        /\ response.body = JSONStringify(JSObj(calls.put[1].Item))
        /\ calls.put[1].Item \in store[ORDER_TABLE_NAME]
        /\ LET order == response.body.json.v
               lines == order.items.v
               given == ItemsOf(event)
           IN  /\ order.userId = CognitoUser(calls.verify[1]).v.Username
               /\ order.userId = calls.user.v.Username
               /\ order.status = JSStr(pending)
               /\ Len(lines) = Len(given)
               /\ \A i \in DOMAIN given :
                      /\ lines[i].v.id = given[i].v.id
                      /\ lines[i].v.quantity = given[i].v.quantity
                      /\ lines[i].v.price = JSNum(ExpectedPrice(given[i]))
                      /\ lines[i].v.totalPrice =
                             JSNum(ExpectedPrice(given[i]) * given[i].v.quantity.v)

\* The example of section 8: items [{id:"p1",quantity:2,price:5},{id:"p2",
\* quantity:1}] give the totals [10, 0].
C4_Witness ==
    /\ IsPostOrders(event)
    /\ HasItems(event)
    /\ ItemsOf(event) = <<JSObj([id |-> P1, quantity |-> JSNum(2), price |-> JSNum(5)]),
                          JSObj([id |-> P2, quantity |-> JSNum(1)])>>
    /\ response.statusCode = 201
    /\ response.body.json.v.items.v[1].v.totalPrice = JSNum(10)
    /\ response.body.json.v.items.v[2].v.totalPrice = JSNum(0)

\* C5: every exception of order creation is caught inside createOrder and
\* answered 401 {error: "Unauthorized", details}: an order creation never
\* throws and is never answered 500; its answers are 201, the two 400s, 401
\* "Authorization token required" and 401 "Unauthorized". In particular a put
\* that fails after authentication and validation, a body that does not parse
\* and a null among the items are answered 401 "Unauthorized".
C5_CaughtAs401 ==
    IsPostOrders(event) =>
        /\ ~escaped
        /\ response.statusCode \in {201, 400, 401}
        /\ response.statusCode = 401 =>
               \/ response.body = ErrorBody("Authorization token required")
               \/ IsError(response, 401, "Unauthorized")
        /\ response.statusCode = 400 =>
               \/ response.body = ErrorBody("Items array is required")
               \/ response.body =
                      ErrorBody("Each item must have productId and positive quantity")
        /\ (\E i \in DOMAIN calls.put : ~calls.put[i].ok) =>
               /\ IsError(response, 401, "Unauthorized")
               /\ response.body.json.v.details = "ServiceUnavailable: DynamoDB put failed"
        /\ (Authenticated(calls) /\ event.body \in {Malformed, Null}) =>
               IsError(response, 401, "Unauthorized")
        /\ (Authenticated(calls) /\ HasItems(event) /\ ItemsOf(event) # <<>>
                /\ ItemsOf(event)[1] = Null) =>
               IsError(response, 401, "Unauthorized")

C5_Witness ==
    /\ IsPostOrders(event)
    /\ Authenticated(calls)
    /\ AllItemsValid(event)
    /\ calls.put # <<>>
    /\ ~calls.put[1].ok
    /\ response.statusCode = 401

\* C6: exports.handler is the one failure boundary. Every invocation returns a
\* Result and never throws; a failure a handler did not convert itself (the
\* body of a product creation that does not parse or is null, its put failing,
\* the scan of a listing failing) is answered 500 {error: "Internal server
\* error", details}, and a 500 is never anything else.
C6_FailureBoundary ==
    event # NoEvent =>
        /\ ~escaped
        /\ response.statusCode \in {200, 201, 400, 401, 404, 500}
        /\ response.headers = IF IsOptions(event) THEN preflightHeaders ELSE headers
        /\ (IsPostProducts(event) /\ event.body \in {Malformed, Null}) =>
               IsError(response, 500, "Internal server error")
        /\ (IsPostProducts(event) /\ \E i \in DOMAIN calls.put : ~calls.put[i].ok) =>
               /\ IsError(response, 500, "Internal server error")
               /\ response.body.json.v.details = "ServiceUnavailable: DynamoDB put failed"
        /\ ((IsGetProducts(event) \/ IsGetOrders(event))
                /\ \E i \in DOMAIN calls.scan : ~calls.scan[i].ok) =>
               /\ IsError(response, 500, "Internal server error")
               /\ response.body.json.v.details = "ServiceUnavailable: DynamoDB scan failed"
        /\ response.statusCode = 500 => IsError(response, 500, "Internal server error")

C6_Witness ==
    /\ IsGetOrders(event)
    /\ calls.scan = <<[TableName |-> ORDER_TABLE_NAME, ok |-> FALSE]>>
    /\ response.statusCode = 500

\* C7: a product creation or an order creation whose body is present and not
\* well-formed is answered 400, not 401 and not 500, and puts nothing.
C7_MalformedBodyIs400 ==
    ((IsPostProducts(event) \/ IsPostOrders(event)) /\ event.body = Malformed) =>
        /\ response.statusCode = 400
        /\ calls.put = <<>>

\* The records a 200 of a listing carries.
Listed(res) == {res.body.json.v[i] : i \in DOMAIN res.body.json.v}

RouteTable ==
    {<<"POST", "/products">>, <<"GET", "/products">>,
     <<"POST", "/orders">>, <<"GET", "/orders">>}

\* C9: an event that is no preflight and whose method and resource are not one
\* of the four entries of the route table is answered 404 {error: "Not found"},
\* and neither the store nor the verifier is called.
C9_NotFound ==
    (/\ event # NoEvent
     /\ event.httpMethod # "OPTIONS"
     /\ <<event.httpMethod, event.resource>> \notin RouteTable) =>
        /\ ~escaped
        /\ response.statusCode = 404
        /\ response.headers = headers
        /\ response.body = ErrorBody("Not found")
        /\ calls = NoCalls

C9_Witness ==
    /\ event.httpMethod = "GET"
    /\ event.resource = "/{proxy+}"
    /\ event.path = "/orders"
    /\ response.statusCode = 404

\* The spellings of the key "authorization" the events use.
AuthorizationKeys == {"Authorization", "authorization", "AUTHORIZATION"}

\* C10: an order creation that carries a "Bearer "-prefixed credential under any
\* letter case of the key "authorization" goes on to verification with the
\* credential, the prefix removed, and is not answered 401 "Authorization token
\* required".
C10_AnyCaseOfKey ==
    (/\ IsPostOrders(event)
     /\ event.headers.t = "object"
     /\ \E k \in AuthorizationKeys :
            /\ DOMAIN event.headers.v = {k}
            /\ StartsWith(event.headers.v[k].v, BearerSp)) =>
        /\ response.body # ErrorBody("Authorization token required")
        /\ \E k \in AuthorizationKeys :
               /\ DOMAIN event.headers.v = {k}
               /\ calls.verify = <<StripBearer(event.headers.v[k].v)>>

====
